---- MODULE Spec2Model ----
(***************************************************************************)
(* A model of the device core of cyanide-go: the bounded object pool as    *)
(* driven by TestWaitPool, the obfuscation configuration installer         *)
(* (handlePostConfig), the load detector (IsUnderLoad), and the device     *)
(* life cycle (Up / Down / Close, bind updates, peer registry, static      *)
(* identity) with its locks, wait groups and queue producer counts.        *)
(***************************************************************************)
EXTENDS Integers, Sequences, FiniteSets, TLC

VARIABLES
    \* ---- bounded pool under TestWaitPool
    poolMax,              \* p.max
    poolCount,            \* p.count
    wpc,                  \* position of every test worker
    trials,               \* the shared trials counter
    gets,                 \* completed Get calls
    puts,                 \* completed Put calls
    maxSeen,              \* the test's max atomic
    \* ---- obfuscation configuration
    aSecConf,             \* device.aSecConf
    msgType,              \* the four package-level message type tags
    packetSizeToMsgType,  \* package-level table
    msgTypeToJunkSize,    \* package-level table
    isASecOn,             \* device.isASecOn
    cfgIn,                \* argument of the last handlePostConfig call
    cfgErr,               \* error chain returned by the last call
    installs,             \* handlePostConfig calls made so far
    \* ---- device
    state,                \* device.state.state
    held,                 \* locks held by every thread, in acquisition order
    th,                   \* per-thread operation, position and locals
    net,                  \* device.net: bind open?, fwmark, receivers running
    staticIdentity,       \* device.staticIdentity and the cookie checker's key
    keyMap,               \* device.peers.keyMap (set of registered peer keys)
    peers,                \* per-peer state
    allowedips,           \* peers that own a prefix of the trie
    cn,                   \* producer counts of the three queues
    workers,              \* running pipeline goroutines
    tunClosed,            \* tun.device.Close() has been called
    limiterClosed,        \* rate.limiter.Close() has been called
    closed,               \* number of times close(device.closed) ran
    \* ---- load detector
    now,                  \* the clock time.Now() reads
    hsDepth,              \* len(device.queue.handshake.c)
    underLoadUntil,       \* device.rate.underLoadUntil
    lq                    \* position and locals of every IsUnderLoad caller

poolVars == <<poolMax, poolCount, wpc, trials, gets, puts, maxSeen>>

cfgVars == <<aSecConf, msgType, packetSizeToMsgType, msgTypeToJunkSize, isASecOn, cfgIn, cfgErr, installs>>

devVars == <<state, held, th, net, staticIdentity, keyMap, peers, allowedips, cn, workers, tunClosed, limiterClosed, closed>>

loadVars == <<now, hsDepth, underLoadUntil, lq>>

vars == <<poolVars, cfgVars, devVars, loadVars>>

Max(a, b) == IF a >= b THEN a ELSE b

(***************************************************************************)
(* Bounded object pool, driven as TestWaitPool drives it.                  *)
(***************************************************************************)

\* runtime.NumCPU() of the machine that runs the pool test
TestNumCPU == 4

\* startTrials, scaled down
StartTrials == 5

PoolWorkers == 1 .. (TestNumCPU + 2)

TestPoolMax == TestNumCPU + 2 - 4

\* the gate of Get: admitted unless the ceiling is reached; max = 0 never gates
GetAdmitsOffByOne(count, max) == max = 0 \/ count <= max

GetAdmits(count, max) == max = 0 \/ count < max

PoolInit ==
    /\ poolMax \in {0, TestPoolMax}
    /\ poolCount = 0
    /\ wpc = [w \in PoolWorkers |-> "loop"]
    /\ trials = StartTrials
    /\ gets = 0
    /\ puts = 0
    /\ maxSeen = 0

\* for trials.Add(-1) > 0 { ... } ; defer cn.Done()
WorkerLoop(w) ==
    /\ wpc[w] = "loop"
    /\ trials' = trials - 1
    /\ wpc' = [wpc EXCEPT ![w] = IF trials - 1 > 0 THEN "get" ELSE "exit"]
    /\ UNCHANGED <<cfgVars, devVars, loadVars, poolMax, poolCount, gets, puts, maxSeen>>

\* x := p.Get(); updateMax()
\* either admitted (count incremented) or parked until a Put wakes it
PoolGet(w) ==
    /\ wpc[w] = "get"
    /\ IF GetAdmits(poolCount, poolMax)
       THEN /\ poolCount' = poolCount + 1
            /\ gets' = gets + 1
            /\ maxSeen' = Max(maxSeen, poolCount + 1)
            /\ wpc' = [wpc EXCEPT ![w] = "hold"]
       ELSE /\ wpc' = [wpc EXCEPT ![w] = "wait"]
            /\ UNCHANGED <<poolCount, gets, maxSeen>>
    /\ UNCHANGED <<cfgVars, devVars, loadVars, poolMax, trials, puts>>

\* the counter after Put
putCountKept(count) == count

putCount(count) == count - 1

\* the parked Get calls among which Put wakes one
signalledNone(parked) == {}

signalled(parked) == parked

\* p.Put(x); updateMax()
\* decrements the counter and wakes exactly one waiter, if any
PoolPut(w) ==
    /\ wpc[w] = "hold"
    /\ poolCount' = putCount(poolCount)
    /\ puts' = puts + 1
    /\ maxSeen' = Max(maxSeen, putCount(poolCount))
    /\ LET waiting == signalled({v \in PoolWorkers : wpc[v] = "wait"})
       IN  IF waiting = {}
           THEN wpc' = [wpc EXCEPT ![w] = "loop"]
           ELSE \E v \in waiting : wpc' = [wpc EXCEPT ![w] = "loop", ![v] = "get"]
    /\ UNCHANGED <<cfgVars, devVars, loadVars, poolMax, trials, gets>>

PoolNext ==
    \E w \in PoolWorkers : WorkerLoop(w) \/ PoolGet(w) \/ PoolPut(w)

(***************************************************************************)
(* Obfuscation configuration: handlePostConfig.                            *)
(***************************************************************************)

MaxSegmentSize == 65535

MessageInitiationSize == 148

MessageResponseSize == 92

MessageCookieReplySize == 64

MessageTransportSize == 32

\* a Go map literal with variable keys: a later entry replaces an earlier one
MapLit(ps) ==
    [k \in {ps[i][1] : i \in DOMAIN ps} |->
        ps[CHOOSE i \in DOMAIN ps :
              /\ ps[i][1] = k
              /\ \A j \in DOMAIN ps : ps[j][1] = k => j <= i][2]]

\* ipcErrorf(ipc.IpcErrorInvalid, "...; %w", err): the new error wraps the pending one
WrapDropsPending(rule, err) == <<rule>>

Wrap(rule, err) == <<rule>> \o err

DefaultASecConf ==
    [isSet |-> FALSE,
     junkPacketCount |-> 0, junkPacketMinSize |-> 0, junkPacketMaxSize |-> 0,
     initPacketJunkSize |-> 0, responsePacketJunkSize |-> 0,
     initPacketMagicHeader |-> 0, responsePacketMagicHeader |-> 0,
     underloadPacketMagicHeader |-> 0, transportPacketMagicHeader |-> 0]

DefaultMsgType == [init |-> 1, resp |-> 2, cookie |-> 3, transport |-> 4]

\* handlePostConfig calls made on one device
MaxInstalls == 3

Big == MaxSegmentSize - MessageResponseSize

\* junk packet count, min size, max size: default; negative count; min = max
\* with packets requested; max below min; max too large
JunkPacketInputs == {<<0, 0, 0>>, <<-1, 0, 0>>, <<1, 7, 7>>, <<0, 7, 0>>, <<0, 0, MaxSegmentSize>>}

\* init and response junk sizes: default; custom; equal resulting sizes;
\* init too large; response too large
JunkSizeInputs == {<<0, 0>>, <<16, 16>>, <<0, 56>>, <<Big, 0>>, <<0, Big>>}

\* init, response, underload, transport magic headers: default; all custom;
\* a duplicate; two partial settings; values that are set but not above 4
MagicInputs ==
    {<<0, 0, 0, 0>>, <<5, 6, 7, 8>>, <<5, 6, 7, 5>>, <<5, 0, 7, 0>>, <<0, 6, 0, 8>>,
     <<4, 3, 2, 1>>}

\* the configurations the IPC layer hands to handlePostConfig
CfgInputs ==
    {DefaultASecConf} \cup
    {[isSet |-> TRUE,
      junkPacketCount |-> j[1], junkPacketMinSize |-> j[2], junkPacketMaxSize |-> j[3],
      initPacketJunkSize |-> z[1], responsePacketJunkSize |-> z[2],
      initPacketMagicHeader |-> m[1], responsePacketMagicHeader |-> m[2],
      underloadPacketMagicHeader |-> m[3], transportPacketMagicHeader |-> m[4]] :
        j \in JunkPacketInputs, z \in JunkSizeInputs, m \in MagicInputs}

\* the magic-header block of handlePostConfig: a supplied value above 4 becomes
\* the tag, anything else selects the canonical constant
ResolveTypeNonZero(supplied, canonical) == IF supplied > 0 THEN supplied ELSE canonical

ResolveType(supplied, canonical) == IF supplied > 4 THEN supplied ELSE canonical

\* the local isASecOn of handlePostConfig: set by every supplied field that is
\* non-zero (the maximum junk size as adjusted, tmax) or is a magic header above 4
aSecOnJunkOnly(t, tmax) ==
    \/ t.junkPacketCount # 0
    \/ t.junkPacketMinSize # 0
    \/ tmax # 0
    \/ t.initPacketJunkSize # 0
    \/ t.responsePacketJunkSize # 0

aSecOn(t, tmax) ==
    \/ t.junkPacketCount # 0
    \/ t.junkPacketMinSize # 0
    \/ tmax # 0
    \/ t.initPacketJunkSize # 0
    \/ t.responsePacketJunkSize # 0
    \/ t.initPacketMagicHeader > 4
    \/ t.responsePacketMagicHeader > 4
    \/ t.underloadPacketMagicHeader > 4
    \/ t.transportPacketMagicHeader > 4

\* handlePostConfig(tempASecConf) on the device state d =
\* [conf, types, p2m, m2j, on]; the result carries the returned error chain
handlePostConfig(d, t) ==
    IF ~t.isSet THEN [conf |-> d.conf, types |-> d.types, p2m |-> d.p2m,
                      m2j |-> d.m2j, on |-> d.on, err |-> <<>>]
    ELSE
    LET err1 == IF t.junkPacketCount < 0 THEN <<"count">> ELSE <<>>
        tmax == IF t.junkPacketCount > 0 /\ t.junkPacketMaxSize = t.junkPacketMinSize
                THEN t.junkPacketMaxSize + 1 ELSE t.junkPacketMaxSize
        c1   == [d.conf EXCEPT !.junkPacketCount = t.junkPacketCount,
                               !.junkPacketMinSize = t.junkPacketMinSize]
        c2   == IF tmax >= MaxSegmentSize
                THEN [c1 EXCEPT !.junkPacketMinSize = 0, !.junkPacketMaxSize = 1]
                ELSE IF tmax < t.junkPacketMinSize THEN c1
                ELSE [c1 EXCEPT !.junkPacketMaxSize = tmax]
        err2 == IF tmax >= MaxSegmentSize THEN Wrap("maxSegment", err1)
                ELSE IF tmax < t.junkPacketMinSize THEN Wrap("maxBelowMin", err1)
                ELSE err1
        initBad == MessageInitiationSize + t.initPacketJunkSize >= MaxSegmentSize
        c3   == IF initBad THEN c2 ELSE [c2 EXCEPT !.initPacketJunkSize = t.initPacketJunkSize]
        err3 == IF initBad THEN Wrap("initSize", err2) ELSE err2
        respBad == MessageResponseSize + t.responsePacketJunkSize >= MaxSegmentSize
        c4   == IF respBad THEN c3
                ELSE [c3 EXCEPT !.responsePacketJunkSize = t.responsePacketJunkSize]
        err4 == IF respBad THEN Wrap("responseSize", err3) ELSE err3
        c5   == [c4 EXCEPT
                   !.initPacketMagicHeader =
                       IF t.initPacketMagicHeader > 4 THEN t.initPacketMagicHeader ELSE @,
                   !.responsePacketMagicHeader =
                       IF t.responsePacketMagicHeader > 4 THEN t.responsePacketMagicHeader ELSE @,
                   !.underloadPacketMagicHeader =
                       IF t.underloadPacketMagicHeader > 4 THEN t.underloadPacketMagicHeader ELSE @,
                   !.transportPacketMagicHeader =
                       IF t.transportPacketMagicHeader > 4 THEN t.transportPacketMagicHeader ELSE @]
        ty   == [init      |-> ResolveType(t.initPacketMagicHeader, 1),
                 resp      |-> ResolveType(t.responsePacketMagicHeader, 2),
                 cookie    |-> ResolveType(t.underloadPacketMagicHeader, 3),
                 transport |-> ResolveType(t.transportPacketMagicHeader, 4)]
        on   == aSecOn(t, tmax)
        isSameMap == {ty.init, ty.resp, ty.cookie, ty.transport}
        err5 == IF Cardinality(isSameMap) # 4 THEN Wrap("magic", err4) ELSE err4
        newInitSize == MessageInitiationSize + c5.initPacketJunkSize
        newResponseSize == MessageResponseSize + c5.responsePacketJunkSize
        same == newInitSize = newResponseSize
        err6 == IF same THEN Wrap("sameSize", err5) ELSE err5
        p2m  == IF same THEN d.p2m
                ELSE MapLit(<< <<newInitSize, ty.init>>,
                               <<newResponseSize, ty.resp>>,
                               <<MessageCookieReplySize, ty.cookie>>,
                               <<MessageTransportSize, ty.transport>> >>)
        m2j  == IF same THEN d.m2j
                ELSE MapLit(<< <<ty.init, c5.initPacketJunkSize>>,
                               <<ty.resp, c5.responsePacketJunkSize>>,
                               <<ty.cookie, 0>>,
                               <<ty.transport, 0>> >>)
    IN  [conf |-> c5, types |-> ty, p2m |-> p2m, m2j |-> m2j, on |-> on, err |-> err6]

CfgInit ==
    /\ aSecConf = DefaultASecConf
    /\ msgType = DefaultMsgType
    /\ packetSizeToMsgType =
          MapLit(<< <<MessageInitiationSize, 1>>, <<MessageResponseSize, 2>>,
                    <<MessageCookieReplySize, 3>>, <<MessageTransportSize, 4>> >>)
    /\ msgTypeToJunkSize = MapLit(<< <<1, 0>>, <<2, 0>>, <<3, 0>>, <<4, 0>> >>)
    /\ isASecOn = FALSE
    /\ cfgIn = DefaultASecConf
    /\ cfgErr = <<>>
    /\ installs = 0

\* one IPC set operation reaching handlePostConfig
HandlePostConfig ==
    /\ installs < MaxInstalls
    /\ installs' = installs + 1
    /\ \E t \in CfgInputs :
           LET r == handlePostConfig([conf |-> aSecConf, types |-> msgType,
                                      p2m |-> packetSizeToMsgType,
                                      m2j |-> msgTypeToJunkSize, on |-> isASecOn], t)
           IN  /\ aSecConf' = r.conf
               /\ msgType' = r.types
               /\ packetSizeToMsgType' = r.p2m
               /\ msgTypeToJunkSize' = r.m2j
               /\ isASecOn' = r.on
               /\ cfgIn' = t
               /\ cfgErr' = r.err
    /\ UNCHANGED <<poolVars, devVars, loadVars>>

(***************************************************************************)
(* Device: state, locks, threads.                                          *)
(***************************************************************************)

\* concurrent callers of the device API
NumThreads == 2

\* peers the configuration may create
NumPeers == 2

\* receive functions a bind may return from Open
MaxRecvFns == 2

\* runtime.NumCPU() of the machine that runs the device
NumCPU == 1

Threads == 1 .. NumThreads

\* private keys; 0 is the zero key a new device holds
PrivKeys == 0 .. NumPeers

\* sk.publicKey(): the public key derived from a private key
publicKey(sk) == 10 + sk

\* sk.sharedSecret(pk)
sharedSecret(sk, pk) == 100 * sk + pk

PeerKeys == {publicKey(k) : k \in 1 .. NumPeers}

Errors == {"nil", "ErrBindClose", "ErrBindOpen", "ErrSetMark"}

Lock(l, p, m) == [l |-> l, p |-> p, m |-> m]

Holds(u, l, p) == \E i \in DOMAIN held[u] : held[u][i].l = l /\ held[u][i].p = p

HoldsW(u, l, p) ==
    \E i \in DOMAIN held[u] : held[u][i].l = l /\ held[u][i].p = p /\ held[u][i].m = "W"

\* sync.Mutex.Lock / sync.RWMutex.Lock and RLock can proceed
LockFree(k) ==
    IF k.m = "W" THEN \A u \in Threads : ~Holds(u, k.l, k.p)
                 ELSE \A u \in Threads : ~HoldsW(u, k.l, k.p)

Release(h, l) == SelectSeq(h, LAMBDA e : e.l # l)

RECURSIVE SetToSeq(_)
SetToSeq(S) ==
    IF S = {} THEN <<>>
    ELSE LET x == CHOOSE y \in S : \A z \in S : y <= z
         IN  <<x>> \o SetToSeq(S \ {x})

IdleThread ==
    [op |-> "none", pc |-> "idle", arg |-> 0, old |-> "Down", err |-> "nil",
     upErr |-> "nil", errDown |-> "nil", n |-> 0, same |-> FALSE, locked |-> {},
     todo |-> {}, cur |-> 0, found |-> 0]

\* no peer object under a key; stopped: the last Start/Stop call on the peer was Stop
NoPeer == [running |-> FALSE, stopped |-> FALSE, pss |-> -1, expiredFor |-> -1]

\* NewDevice: state Down, no peers, queues created with their permanent
\* reference, cpus workers of each kind and the TUN reader started
DevInit ==
    /\ state = "Down"
    /\ held = [t \in Threads |-> <<>>]
    /\ th = [t \in Threads |-> IdleThread]
    /\ net = [bindOpen |-> FALSE, fwmark |-> 0, receivers |-> 0]
    /\ staticIdentity = [privateKey |-> 0, publicKey |-> 0, cookieKey |-> -1]
    /\ keyMap = {}
    /\ peers = [k \in PeerKeys |-> NoPeer]
    /\ allowedips = {}
    /\ cn = [encryption |-> 1 + NumCPU + 1, decryption |-> 1, handshake |-> 1]
    /\ workers = [encryption |-> NumCPU, decryption |-> NumCPU, handshake |-> NumCPU,
                  tun |-> TRUE]
    /\ tunClosed = FALSE
    /\ limiterClosed = FALSE
    /\ closed = 0

(***************************************************************************)
(* Locks each blocking step takes.                                         *)
(***************************************************************************)

StateLock == Lock("state", 0, "W")

IpcLock == Lock("ipc", 0, "W")

NetLock == Lock("net", 0, "W")

StaticLock == Lock("static", 0, "W")

PeersLock == Lock("peers", 0, "W")

PeersRLock == Lock("peers", 0, "R")

HandshakeRLock(p) == Lock("handshake", p, "R")

\* BindSetMark, second lock: device.peers.RLock() while net is held
BindSetMarkInnerBad == StateLock

BindSetMarkInner == PeersRLock

\* the locks thread t must get to take its next step (none where it does not block on a lock)
Wants(t) ==
    LET pc == th[t].pc
    IN  CASE pc \in {"BindUpdate", "BindClose"} -> {NetLock}
          [] pc \in {"bu_peers", "up_peers", "down_peers"} -> {PeersRLock}
          [] pc = "bsm_peers" -> {BindSetMarkInner}
          [] pc \in {"up_ipc", "cl_ipc"} -> {IpcLock}
          [] pc \in {"RemoveAllPeers", "spk_peers"} -> {PeersLock}
          [] pc = "spk_hs" -> {HandshakeRLock(p) : p \in keyMap}
          [] OTHER -> {}

CanStep(t) == \A k \in Wants(t) : LockFree(k)

Acquire(t, k) == [held EXCEPT ![t] = Append(@, k)]

Set(t, r) == [th EXCEPT ![t] = r]

(***************************************************************************)
(* Peers.                                                                  *)
(***************************************************************************)

\* removePeerLocked on the triple [keyMap, peers, allowedips]: prefixes removed,
\* the peer stopped and torn down, the key deleted from the map
removePeerLockedKeepsKey(r, key) ==
    [keyMap |-> r.keyMap,
     peers |-> [r.peers EXCEPT ![key] = NoPeer],
     allowedips |-> r.allowedips \ {key}]

removePeerLocked(r, key) ==
    [keyMap |-> r.keyMap \ {key},
     peers |-> [r.peers EXCEPT ![key] = NoPeer],
     allowedips |-> r.allowedips \ {key}]

Registry == [keyMap |-> keyMap, peers |-> peers, allowedips |-> allowedips]

\* a peer created and, on an Up device, started by an IPC set operation,
\* which holds the IPC mutex, the static identity and the registry meanwhile
AddPeer(k) ==
    /\ k \notin keyMap
    /\ state # "Closed"
    /\ k # publicKey(staticIdentity.privateKey)
    /\ LockFree(IpcLock) /\ LockFree(StaticLock) /\ LockFree(PeersLock)
    /\ keyMap' = keyMap \cup {k}
    /\ allowedips' = allowedips \cup {k}
    /\ peers' = [peers EXCEPT ![k] =
                    [running |-> state = "Up",
                     stopped |-> FALSE,
                     pss |-> sharedSecret(staticIdentity.privateKey, k),
                     expiredFor |-> -1]]
    /\ UNCHANGED <<poolVars, cfgVars, loadVars, state, held, th, net, staticIdentity, cn, workers, tunClosed,
                   limiterClosed, closed>>

(***************************************************************************)
(* changeState, upLocked, downLocked.                                      *)
(***************************************************************************)

\* changeState line 304: once closed, always closed
onceClosedOff(old) == FALSE

onceClosed(old) == old = "Closed"

\* changeState lines 322-324: the error of the down-procedure is returned only
\* if the up-procedure reported none
mergeErrDownOnly(err, errDown) == errDown

mergeErr(err, errDown) == IF err = "nil" THEN errDown ELSE err

\* Up() / Down(): changeState(want) up to the store of the wanted state
changeState(t, want) ==
    /\ th[t].pc = "idle"
    /\ LockFree(StateLock)
    /\ held' = Acquire(t, StateLock)
    /\ LET me == [IdleThread EXCEPT !.op = want, !.old = state]
       IN  IF onceClosed(state) \/ want = state
           THEN /\ th' = Set(t, [me EXCEPT !.pc = "ret"])
                /\ UNCHANGED <<state>>
           ELSE /\ state' = want
                /\ th' = Set(t, [me EXCEPT !.pc = IF want = "Up" THEN "BindUpdate"
                                                  ELSE "BindClose"])
    /\ UNCHANGED <<poolVars, cfgVars, loadVars, net, staticIdentity, keyMap, peers, allowedips, cn, workers,
                   tunClosed, limiterClosed, closed>>

\* what follows the return of BindUpdate with error e, with the net lock
\* released unless BindUpdate is the operation itself (deferred unlock)
AfterBindUpdate(t, e, n) ==
    IF th[t].op = "BindUpdate"
    THEN /\ th' = Set(t, [th[t] EXCEPT !.pc = "ret", !.err = e, !.n = n])
         /\ UNCHANGED <<held>>
    ELSE /\ th' = Set(t, [th[t] EXCEPT !.pc = IF e = "nil" THEN "up_ipc" ELSE "fallthrough",
                                       !.err = e, !.upErr = e, !.n = n])
         /\ held' = [held EXCEPT ![t] = Release(@, "net")]

\* BindUpdate: net.Lock(); closeBindLocked up to bind.Close()
BindUpdate_lock(t) ==
    /\ \/ th[t].pc = "BindUpdate"
       \/ th[t].pc = "idle"
    /\ LockFree(NetLock)
    /\ held' = Acquire(t, NetLock)
    /\ net' = [net EXCEPT !.bindOpen = FALSE]
    /\ \E e \in {"nil", "ErrBindClose"} :
          th' = Set(t, [(IF th[t].pc = "idle" THEN [IdleThread EXCEPT !.op = "BindUpdate"]
                         ELSE th[t]) EXCEPT !.pc = "bu_wait", !.err = e])
    /\ UNCHANGED <<poolVars, cfgVars, loadVars, state, staticIdentity, keyMap, peers, allowedips, cn, workers,
                   tunClosed, limiterClosed, closed>>

\* BindUpdate: netc.stopping.Wait() returns; isUp(); bind.Open; SetMark
BindUpdate_open(t) ==
    /\ th[t].pc = "bu_wait"
    /\ net.receivers = 0
    /\ IF th[t].err # "nil"
       THEN AfterBindUpdate(t, th[t].err, 0) /\ UNCHANGED <<net>>
       ELSE IF state # "Up"
       THEN AfterBindUpdate(t, "nil", 0) /\ UNCHANGED <<net>>
       ELSE \/ AfterBindUpdate(t, "ErrBindOpen", 0) /\ UNCHANGED <<net>>
            \/ /\ net' = [net EXCEPT !.bindOpen = TRUE]
               /\ \/ /\ net.fwmark # 0
                     /\ AfterBindUpdate(t, "ErrSetMark", 0)
                  \/ /\ \E n \in 1 .. MaxRecvFns :
                           th' = Set(t, [th[t] EXCEPT !.pc = "bu_peers", !.n = n])
                     /\ UNCHANGED <<held>>
    /\ UNCHANGED <<poolVars, cfgVars, loadVars, state, staticIdentity, keyMap, peers, allowedips, cn, workers,
                   tunClosed, limiterClosed, closed>>

\* BindUpdate: device.peers.RLock()
BindUpdate_peers(t) ==
    /\ th[t].pc = "bu_peers"
    /\ CanStep(t)
    /\ held' = Acquire(t, PeersRLock)
    /\ th' = Set(t, [th[t] EXCEPT !.pc = "bu_start"])
    /\ UNCHANGED <<poolVars, cfgVars, loadVars, state, net, staticIdentity, keyMap, peers, allowedips, cn, workers,
                   tunClosed, limiterClosed, closed>>

\* BindUpdate lines 681-683: producers added for len(recvFns) receivers
recvProducersNone(n) == 0

recvProducers(n) == n

\* BindUpdate: source addresses cleared, RUnlock, receivers started
BindUpdate_start(t) ==
    /\ th[t].pc = "bu_start"
    /\ net' = [net EXCEPT !.receivers = @ + th[t].n]
    /\ cn' = [cn EXCEPT !.decryption = @ + recvProducers(th[t].n),
                        !.handshake = @ + recvProducers(th[t].n)]
    /\ IF th[t].op = "BindUpdate"
       THEN /\ th' = Set(t, [th[t] EXCEPT !.pc = "ret", !.err = "nil"])
            /\ held' = [held EXCEPT ![t] = Release(@, "peers")]
       ELSE /\ th' = Set(t, [th[t] EXCEPT !.pc = "up_ipc", !.err = "nil"])
            /\ held' = [held EXCEPT ![t] = Release(Release(@, "peers"), "net")]
    /\ UNCHANGED <<poolVars, cfgVars, loadVars, state, staticIdentity, keyMap, peers, allowedips, workers,
                   tunClosed, limiterClosed, closed>>

\* upLocked: device.ipcMutex.Lock()
upLocked_ipc(t) ==
    /\ th[t].pc = "up_ipc"
    /\ CanStep(t)
    /\ held' = Acquire(t, IpcLock)
    /\ th' = Set(t, [th[t] EXCEPT !.pc = "up_peers"])
    /\ UNCHANGED <<poolVars, cfgVars, loadVars, state, net, staticIdentity, keyMap, peers, allowedips, cn, workers,
                   tunClosed, limiterClosed, closed>>

\* upLocked: device.peers.RLock()
upLocked_peers(t) ==
    /\ th[t].pc = "up_peers"
    /\ CanStep(t)
    /\ held' = Acquire(t, PeersRLock)
    /\ th' = Set(t, [th[t] EXCEPT !.pc = "up_start"])
    /\ UNCHANGED <<poolVars, cfgVars, loadVars, state, net, staticIdentity, keyMap, peers, allowedips, cn, workers,
                   tunClosed, limiterClosed, closed>>

\* upLocked: every peer started; RUnlock; ipcMutex.Unlock; changeState returns nil
upLocked_start(t) ==
    /\ th[t].pc = "up_start"
    /\ peers' = [k \in PeerKeys |-> IF k \in keyMap THEN [peers[k] EXCEPT !.running = TRUE, !.stopped = FALSE]
                                    ELSE peers[k]]
    /\ held' = [held EXCEPT ![t] = Release(Release(@, "peers"), "ipc")]
    /\ th' = Set(t, [th[t] EXCEPT !.pc = "ret"])
    /\ UNCHANGED <<poolVars, cfgVars, loadVars, state, net, staticIdentity, keyMap, allowedips, cn, workers,
                   tunClosed, limiterClosed, closed>>

\* changeState: fallthrough after a failed upLocked: the state word goes back to Down
changeState_fallthrough(t) ==
    /\ th[t].pc = "fallthrough"
    /\ state' = "Down"
    /\ th' = Set(t, [th[t] EXCEPT !.pc = "BindClose"])
    /\ UNCHANGED <<poolVars, cfgVars, loadVars, held, net, staticIdentity, keyMap, peers, allowedips, cn, workers,
                   tunClosed, limiterClosed, closed>>

\* BindClose: net.Lock(); closeBindLocked up to bind.Close()
BindClose_lock(t) ==
    /\ \/ th[t].pc = "BindClose"
       \/ th[t].pc = "idle"
    /\ LockFree(NetLock)
    /\ held' = Acquire(t, NetLock)
    /\ net' = [net EXCEPT !.bindOpen = FALSE]
    /\ \E e \in {"nil", "ErrBindClose"} :
          th' = Set(t, [(IF th[t].pc = "idle" THEN [IdleThread EXCEPT !.op = "BindClose"]
                         ELSE th[t]) EXCEPT !.pc = "bc_wait", !.errDown = e])
    /\ UNCHANGED <<poolVars, cfgVars, loadVars, state, staticIdentity, keyMap, peers, allowedips, cn, workers,
                   tunClosed, limiterClosed, closed>>

\* BindClose: netc.stopping.Wait() returns; net.Unlock()
BindClose_wait(t) ==
    /\ th[t].pc = "bc_wait"
    /\ net.receivers = 0
    /\ held' = [held EXCEPT ![t] = Release(@, "net")]
    /\ th' = Set(t, IF th[t].op = "BindClose"
                    THEN [th[t] EXCEPT !.pc = "ret", !.err = th[t].errDown]
                    ELSE [th[t] EXCEPT !.pc = "down_peers"])
    /\ UNCHANGED <<poolVars, cfgVars, loadVars, state, net, staticIdentity, keyMap, peers, allowedips, cn, workers,
                   tunClosed, limiterClosed, closed>>

\* downLocked: device.peers.RLock()
downLocked_peers(t) ==
    /\ th[t].pc = "down_peers"
    /\ CanStep(t)
    /\ held' = Acquire(t, PeersRLock)
    /\ th' = Set(t, [th[t] EXCEPT !.pc = "down_stop"])
    /\ UNCHANGED <<poolVars, cfgVars, loadVars, state, net, staticIdentity, keyMap, peers, allowedips, cn, workers,
                   tunClosed, limiterClosed, closed>>

\* downLocked: every peer stopped; RUnlock; the caller goes on
downLocked_stopNoLoop(t) ==
    /\ th[t].pc = "down_stop"
    /\ held' = [held EXCEPT ![t] = Release(@, "peers")]
    /\ th' = Set(t, IF th[t].op = "Close"
                    THEN [th[t] EXCEPT !.pc = "RemoveAllPeers"]
                    ELSE [th[t] EXCEPT !.pc = "ret",
                                       !.err = mergeErr(th[t].err, th[t].errDown)])
    /\ UNCHANGED <<poolVars, cfgVars, loadVars, state, net, staticIdentity, keyMap, peers, allowedips, cn,
                   workers, tunClosed, limiterClosed, closed>>

downLocked_stop(t) ==
    /\ th[t].pc = "down_stop"
    /\ peers' = [k \in PeerKeys |-> IF k \in keyMap THEN [peers[k] EXCEPT !.running = FALSE, !.stopped = TRUE]
                                    ELSE peers[k]]
    /\ held' = [held EXCEPT ![t] = Release(@, "peers")]
    /\ th' = Set(t, IF th[t].op = "Close"
                    THEN [th[t] EXCEPT !.pc = "RemoveAllPeers"]
                    ELSE [th[t] EXCEPT !.pc = "ret",
                                       !.err = mergeErr(th[t].err, th[t].errDown)])
    /\ UNCHANGED <<poolVars, cfgVars, loadVars, state, net, staticIdentity, keyMap, allowedips, cn, workers,
                   tunClosed, limiterClosed, closed>>

\* the deferred unlocks run and the call returns
Return(t) ==
    /\ th[t].pc = "ret"
    /\ held' = [held EXCEPT ![t] = <<>>]
    /\ th' = Set(t, IdleThread)
    /\ UNCHANGED <<poolVars, cfgVars, loadVars, state, net, staticIdentity, keyMap, peers, allowedips, cn, workers,
                   tunClosed, limiterClosed, closed>>

(***************************************************************************)
(* Close, peer removal.                                                    *)
(***************************************************************************)

\* Close: device.state.Lock()
Close_lock(t) ==
    /\ th[t].pc = "idle"
    /\ LockFree(StateLock)
    /\ held' = Acquire(t, StateLock)
    /\ th' = Set(t, [IdleThread EXCEPT !.op = "Close", !.pc = "cl_ipc", !.old = state])
    /\ UNCHANGED <<poolVars, cfgVars, loadVars, state, net, staticIdentity, keyMap, peers, allowedips, cn, workers,
                   tunClosed, limiterClosed, closed>>

\* Close line 537: a closed device is left alone
alreadyClosedOff(st) == FALSE

alreadyClosed(st) == st = "Closed"

\* Close: ipcMutex.Lock(); isClosed(); store Closed
Close_ipc(t) ==
    /\ th[t].pc = "cl_ipc"
    /\ CanStep(t)
    /\ held' = Acquire(t, IpcLock)
    /\ IF alreadyClosed(state)
       THEN /\ th' = Set(t, [th[t] EXCEPT !.pc = "ret", !.old = state])
            /\ UNCHANGED <<state>>
       ELSE /\ state' = "Closed"
            /\ th' = Set(t, [th[t] EXCEPT !.pc = "cl_tun", !.old = state])
    /\ UNCHANGED <<poolVars, cfgVars, loadVars, net, staticIdentity, keyMap, peers, allowedips, cn, workers,
                   tunClosed, limiterClosed, closed>>

\* Close: tun.device.Close(); the down-procedure follows
Close_tun(t) ==
    /\ th[t].pc = "cl_tun"
    /\ tunClosed' = TRUE
    /\ th' = Set(t, [th[t] EXCEPT !.pc = "BindClose"])
    /\ UNCHANGED <<poolVars, cfgVars, loadVars, state, held, net, staticIdentity, keyMap, peers, allowedips,
                   cn, workers, limiterClosed, closed>>

\* RemoveAllPeers: peers.Lock(); every peer removed; a fresh key map
RemoveAllPeersNothing(t) ==
    /\ \/ th[t].pc = "RemoveAllPeers"
       \/ th[t].pc = "idle"
    /\ LockFree(PeersLock)
    /\ held' = Acquire(t, PeersLock)
    /\ th' = Set(t, IF th[t].pc = "idle"
                    THEN [IdleThread EXCEPT !.op = "RemoveAllPeers", !.pc = "ret"]
                    ELSE [th[t] EXCEPT !.pc = "cl_done"])
    /\ UNCHANGED <<poolVars, cfgVars, loadVars, state, net, staticIdentity, keyMap, peers, allowedips,
                   cn, workers, tunClosed, limiterClosed, closed>>

RemoveAllPeers(t) ==
    /\ \/ th[t].pc = "RemoveAllPeers"
       \/ th[t].pc = "idle"
    /\ LockFree(PeersLock)
    /\ held' = Acquire(t, PeersLock)
    /\ keyMap' = {}
    /\ peers' = [k \in PeerKeys |-> IF k \in keyMap THEN removePeerLocked(Registry, k).peers[k]
                                    ELSE peers[k]]
    /\ allowedips' = allowedips \ keyMap
    /\ th' = Set(t, IF th[t].pc = "idle"
                    THEN [IdleThread EXCEPT !.op = "RemoveAllPeers", !.pc = "ret"]
                    ELSE [th[t] EXCEPT !.pc = "cl_done"])
    /\ UNCHANGED <<poolVars, cfgVars, loadVars, state, net, staticIdentity, cn, workers, tunClosed, limiterClosed, closed>>

\* Close lines 553-555: the permanent producer references are released
closeRefsHandshakeKept(q) == IF q = "handshake" THEN 0 ELSE 1

closeRefs(q) == 1

\* Close: RemoveAllPeers has returned; cn.Done() on the three queues
Close_done(t) ==
    /\ th[t].pc = "cl_done"
    /\ held' = [held EXCEPT ![t] = Release(@, "peers")]
    /\ cn' = [q \in DOMAIN cn |-> cn[q] - closeRefs(q)]
    /\ th' = Set(t, [th[t] EXCEPT !.pc = "cl_wait"])
    /\ UNCHANGED <<poolVars, cfgVars, loadVars, state, net, staticIdentity, keyMap, peers, allowedips, workers,
                   tunClosed, limiterClosed, closed>>

\* Close: state.stopping.Wait() returns; rate.limiter.Close()
Close_wait(t) ==
    /\ th[t].pc = "cl_wait"
    /\ ~workers.tun
    /\ limiterClosed' = TRUE
    /\ th' = Set(t, [th[t] EXCEPT !.pc = "cl_latch"])
    /\ UNCHANGED <<poolVars, cfgVars, loadVars, state, held, net, staticIdentity, keyMap, peers, allowedips, cn,
                   workers, tunClosed, closed>>

\* Close: close(device.closed)
Close_latch(t) ==
    /\ th[t].pc = "cl_latch"
    /\ closed' = closed + 1
    /\ th' = Set(t, [th[t] EXCEPT !.pc = "ret"])
    /\ UNCHANGED <<poolVars, cfgVars, loadVars, state, held, net, staticIdentity, keyMap, peers, allowedips, cn,
                   workers, tunClosed, limiterClosed>>

\* RemovePeer(key)
RemovePeer(t, key) ==
    /\ th[t].pc = "idle"
    /\ LockFree(PeersLock)
    /\ held' = Acquire(t, PeersLock)
    /\ LET r == IF key \in keyMap THEN removePeerLocked(Registry, key) ELSE Registry
       IN  /\ keyMap' = r.keyMap
           /\ peers' = r.peers
           /\ allowedips' = r.allowedips
    /\ th' = Set(t, [IdleThread EXCEPT !.op = "RemovePeer", !.pc = "ret", !.arg = key])
    /\ UNCHANGED <<poolVars, cfgVars, loadVars, state, net, staticIdentity, cn, workers, tunClosed, limiterClosed, closed>>

(***************************************************************************)
(* SetPrivateKey.                                                          *)
(***************************************************************************)

\* SetPrivateKey line 397: sk.Equals(device.staticIdentity.privateKey)
sameKeyNever(sk, current) == FALSE

sameKey(sk, current) == sk = current

\* SetPrivateKey: staticIdentity.Lock(); the same key is a no-op
SetPrivateKey_lock(t, sk) ==
    /\ th[t].pc = "idle"
    /\ LockFree(StaticLock)
    /\ held' = Acquire(t, StaticLock)
    /\ th' = Set(t, [IdleThread EXCEPT
                        !.op = "SetPrivateKey", !.arg = sk,
                        !.same = sameKey(sk, staticIdentity.privateKey),
                        !.pc = IF sameKey(sk, staticIdentity.privateKey) THEN "ret"
                               ELSE "spk_peers"])
    /\ UNCHANGED <<poolVars, cfgVars, loadVars, state, net, staticIdentity, keyMap, peers, allowedips, cn, workers,
                   tunClosed, limiterClosed, closed>>

\* SetPrivateKey: device.peers.Lock()
SetPrivateKey_peers(t) ==
    /\ th[t].pc = "spk_peers"
    /\ CanStep(t)
    /\ held' = Acquire(t, PeersLock)
    /\ th' = Set(t, [th[t] EXCEPT !.pc = "spk_hs"])
    /\ UNCHANGED <<poolVars, cfgVars, loadVars, state, net, staticIdentity, keyMap, peers, allowedips, cn, workers,
                   tunClosed, limiterClosed, closed>>

\* SetPrivateKey: peer.handshake.mutex.RLock() on every registered peer
SetPrivateKey_handshakes(t) ==
    /\ th[t].pc = "spk_hs"
    /\ CanStep(t)
    /\ LET ks == SetToSeq(keyMap)
       IN  held' = [held EXCEPT ![t] = @ \o [i \in DOMAIN ks |-> HandshakeRLock(ks[i])]]
    /\ th' = Set(t, [th[t] EXCEPT !.pc = "spk_body", !.locked = keyMap])
    /\ UNCHANGED <<poolVars, cfgVars, loadVars, state, net, staticIdentity, keyMap, peers, allowedips, cn, workers,
                   tunClosed, limiterClosed, closed>>

\* SetPrivateKey line 414: the peer whose remote static is the new public key
selfLoopNever(remoteStatic, pk) == FALSE

selfLoop(remoteStatic, pk) == remoteStatic = pk

\* SetPrivateKey lines 412-441: matching peers removed, key material replaced,
\* static-static secrets recomputed, handshake locks released, keypairs expired
SetPrivateKey_body(t) ==
    /\ th[t].pc = "spk_body"
    /\ LET sk == th[t].arg
           pk == publicKey(sk)
           gone == {k \in keyMap : selfLoop(k, pk)}
           stay == keyMap \ gone
       IN  /\ keyMap' = stay
           /\ allowedips' = allowedips \ gone
           /\ staticIdentity' = [privateKey |-> sk, publicKey |-> pk, cookieKey |-> pk]
           /\ peers' = [k \in PeerKeys |->
                          IF k \in gone THEN removePeerLocked(Registry, k).peers[k]
                          ELSE IF k \in stay
                          THEN [peers[k] EXCEPT !.pss = sharedSecret(sk, k), !.expiredFor = sk]
                          ELSE peers[k]]
    /\ held' = [held EXCEPT ![t] = Release(@, "handshake")]
    /\ th' = Set(t, [th[t] EXCEPT !.pc = "ret"])
    /\ UNCHANGED <<poolVars, cfgVars, loadVars, state, net, cn, workers, tunClosed, limiterClosed, closed>>

(***************************************************************************)
(* Peer removal and lookup, statement by statement: the steps of           *)
(* removePeerLocked under each of its three callers, next to LookupPeer.   *)
(* todo holds the peers the caller's loop has still to remove, cur the     *)
(* peer removePeerLocked is working on; 0 is the nil peer.                 *)
(***************************************************************************)

\* the handshake read lock of peer k given up
ReleaseHandshake(h, k) == SelectSeq(h, LAMBDA e : ~(e.l = "handshake" /\ e.p = k))

\* RemovePeer: peers.Lock(); the key looked up
RemovePeer_lockShared(t, key) ==
    /\ th[t].pc = "idle"
    /\ LockFree(PeersRLock)
    /\ held' = Acquire(t, PeersRLock)
    /\ th' = Set(t, [IdleThread EXCEPT !.op = "RemovePeer", !.arg = key,
                                       !.todo = {key} \cap keyMap,
                                       !.pc = IF key \in keyMap THEN "rm_trie" ELSE "ret"])
    /\ UNCHANGED <<poolVars, cfgVars, loadVars, state, net, staticIdentity, keyMap, peers, allowedips,
                   cn, workers, tunClosed, limiterClosed, closed>>

RemovePeer_lock(t, key) ==
    /\ th[t].pc = "idle"
    /\ LockFree(PeersLock)
    /\ held' = Acquire(t, PeersLock)
    /\ th' = Set(t, [IdleThread EXCEPT !.op = "RemovePeer", !.arg = key,
                                       !.todo = {key} \cap keyMap,
                                       !.pc = IF key \in keyMap THEN "rm_trie" ELSE "ret"])
    /\ UNCHANGED <<poolVars, cfgVars, loadVars, state, net, staticIdentity, keyMap, peers, allowedips,
                   cn, workers, tunClosed, limiterClosed, closed>>

\* RemoveAllPeers: peers.Lock(); the loop over the key map begins; the fresh
\* map that ends it replaces a map the loop has emptied
RemoveAllPeers_lock(t) ==
    /\ th[t].pc = "idle"
    /\ LockFree(PeersLock)
    /\ held' = Acquire(t, PeersLock)
    /\ th' = Set(t, [IdleThread EXCEPT !.op = "RemoveAllPeers", !.todo = keyMap,
                                       !.pc = IF keyMap = {} THEN "ret" ELSE "rm_trie"])
    /\ UNCHANGED <<poolVars, cfgVars, loadVars, state, net, staticIdentity, keyMap, peers, allowedips,
                   cn, workers, tunClosed, limiterClosed, closed>>

\* SetPrivateKey lines 412-413: the loop over the peers whose remote static is
\* the new public key begins
SetPrivateKey_selfLoop(t) ==
    /\ th[t].pc = "spk_body"
    /\ \E k \in keyMap : selfLoop(k, publicKey(th[t].arg))
    /\ th' = Set(t, [th[t] EXCEPT !.todo = {k \in keyMap : selfLoop(k, publicKey(th[t].arg))},
                                  !.pc = "rm_trie"])
    /\ UNCHANGED <<poolVars, cfgVars, loadVars, state, held, net, staticIdentity, keyMap, peers, allowedips,
                   cn, workers, tunClosed, limiterClosed, closed>>

\* SetPrivateKey lines 421-443, once no registered peer matches the new key
SetPrivateKey_rest(t) ==
    /\ \A k \in keyMap : ~selfLoop(k, publicKey(th[t].arg))
    /\ SetPrivateKey_body(t)

\* removePeerLocked: device.allowedips.RemoveByPeer(peer), on the next peer of
\* the caller's loop (SetPrivateKey gives up the peer's handshake lock first)
removePeerLocked_trie(t) ==
    /\ th[t].pc = "rm_trie"
    /\ \E k \in th[t].todo :
          /\ allowedips' = allowedips \ {k}
          /\ th' = Set(t, [th[t] EXCEPT !.cur = k, !.pc = "rm_stop"])
          /\ held' = IF th[t].op = "SetPrivateKey"
                     THEN [held EXCEPT ![t] = ReleaseHandshake(@, k)]
                     ELSE held
    /\ UNCHANGED <<poolVars, cfgVars, loadVars, state, net, staticIdentity, keyMap, peers,
                   cn, workers, tunClosed, limiterClosed, closed>>

\* removePeerLocked: peer.Stop()
removePeerLocked_stop(t) ==
    /\ th[t].pc = "rm_stop"
    /\ peers' = [peers EXCEPT ![th[t].cur] = [@ EXCEPT !.running = FALSE, !.stopped = TRUE]]
    /\ th' = Set(t, [th[t] EXCEPT !.pc = "rm_delete"])
    /\ UNCHANGED <<poolVars, cfgVars, loadVars, state, held, net, staticIdentity, keyMap, allowedips,
                   cn, workers, tunClosed, limiterClosed, closed>>

\* removePeerLocked: delete(device.peers.keyMap, key); the peer is reachable
\* under no key from here on; the caller's loop goes on or ends
removePeerLocked_delete(t) ==
    /\ th[t].pc = "rm_delete"
    /\ keyMap' = keyMap \ {th[t].cur}
    /\ peers' = [peers EXCEPT ![th[t].cur] = NoPeer]
    /\ LET left == th[t].todo \ {th[t].cur}
       IN  th' = Set(t, [th[t] EXCEPT !.todo = left, !.cur = 0,
                                      !.pc = IF left # {} THEN "rm_trie"
                                             ELSE IF th[t].op = "SetPrivateKey" THEN "spk_body"
                                             ELSE "ret"])
    /\ held' = IF th[t].op = "SetPrivateKey"
               THEN [held EXCEPT ![t] = Append(@, HandshakeRLock(th[t].cur))]
               ELSE held
    /\ UNCHANGED <<poolVars, cfgVars, loadVars, state, net, staticIdentity, allowedips,
                   cn, workers, tunClosed, limiterClosed, closed>>

\* LookupPeer: device.peers.RLock()
LookupPeer_lock(t, pk) ==
    /\ th[t].pc = "idle"
    /\ LockFree(PeersRLock)
    /\ held' = Acquire(t, PeersRLock)
    /\ th' = Set(t, [IdleThread EXCEPT !.op = "LookupPeer", !.arg = pk, !.pc = "lk_read"])
    /\ UNCHANGED <<poolVars, cfgVars, loadVars, state, net, staticIdentity, keyMap, peers, allowedips,
                   cn, workers, tunClosed, limiterClosed, closed>>

\* LookupPeer: return device.peers.keyMap[pk]
LookupPeer_read(t) ==
    /\ th[t].pc = "lk_read"
    /\ th' = Set(t, [th[t] EXCEPT !.found = IF th[t].arg \in keyMap THEN th[t].arg ELSE 0,
                                  !.pc = "ret"])
    /\ UNCHANGED <<poolVars, cfgVars, loadVars, state, held, net, staticIdentity, keyMap, peers, allowedips,
                   cn, workers, tunClosed, limiterClosed, closed>>

(***************************************************************************)
(* BindSetMark.                                                            *)
(***************************************************************************)

\* BindSetMark: net.Lock(); fwmark; bind.SetMark on an Up device
BindSetMark_lock(t, mark) ==
    /\ th[t].pc = "idle"
    /\ LockFree(NetLock)
    /\ held' = Acquire(t, NetLock)
    /\ LET me == [IdleThread EXCEPT !.op = "BindSetMark", !.arg = mark]
       IN  IF net.fwmark = mark
           THEN /\ th' = Set(t, [me EXCEPT !.pc = "ret"])
                /\ UNCHANGED <<net>>
           ELSE /\ net' = [net EXCEPT !.fwmark = mark]
                /\ \/ /\ state = "Up"
                      /\ th' = Set(t, [me EXCEPT !.pc = "ret", !.err = "ErrSetMark"])
                   \/ th' = Set(t, [me EXCEPT !.pc = "bsm_peers"])
    /\ UNCHANGED <<poolVars, cfgVars, loadVars, state, staticIdentity, keyMap, peers, allowedips, cn, workers,
                   tunClosed, limiterClosed, closed>>

\* BindSetMark: the second lock is taken
BindSetMark_peers(t) ==
    /\ th[t].pc = "bsm_peers"
    /\ CanStep(t)
    /\ held' = Acquire(t, BindSetMarkInner)
    /\ th' = Set(t, [th[t] EXCEPT !.pc = "ret"])
    /\ UNCHANGED <<poolVars, cfgVars, loadVars, state, net, staticIdentity, keyMap, peers, allowedips, cn, workers,
                   tunClosed, limiterClosed, closed>>

(***************************************************************************)
(* Pipeline goroutines.                                                    *)
(***************************************************************************)

\* RoutineReceiveIncoming returns once its bind is closed
ReceiverExit ==
    /\ net.receivers > 0
    /\ ~net.bindOpen
    /\ net' = [net EXCEPT !.receivers = @ - 1]
    /\ cn' = [cn EXCEPT !.decryption = @ - 1, !.handshake = @ - 1]
    /\ UNCHANGED <<poolVars, cfgVars, loadVars, state, held, th, staticIdentity, keyMap, peers, allowedips, workers,
                   tunClosed, limiterClosed, closed>>

\* RoutineReadFromTUN returns when reading the closed TUN fails
TunReaderExit ==
    /\ workers.tun
    /\ tunClosed
    /\ workers' = [workers EXCEPT !.tun = FALSE]
    /\ cn' = [cn EXCEPT !.encryption = @ - 1]
    /\ UNCHANGED <<poolVars, cfgVars, loadVars, state, held, th, net, staticIdentity, keyMap, peers, allowedips,
                   tunClosed, limiterClosed, closed>>

\* RoutineReadFromTUN returns on a read error of the open TUN
TunReadError ==
    /\ workers.tun
    /\ ~tunClosed
    /\ workers' = [workers EXCEPT !.tun = FALSE]
    /\ cn' = [cn EXCEPT !.encryption = @ - 1]
    /\ UNCHANGED <<poolVars, cfgVars, loadVars, state, held, th, net, staticIdentity, keyMap, peers, allowedips,
                   tunClosed, limiterClosed, closed>>

\* RoutineHandshake returns when the handshake queue is closed
HandshakeWorkerExit ==
    /\ workers.handshake > 0
    /\ cn.handshake = 0
    /\ workers' = [workers EXCEPT !.handshake = @ - 1]
    /\ cn' = [cn EXCEPT !.encryption = @ - 1]
    /\ UNCHANGED <<poolVars, cfgVars, loadVars, state, held, th, net, staticIdentity, keyMap, peers, allowedips,
                   tunClosed, limiterClosed, closed>>

\* RoutineEncryption returns when the encryption queue is closed
EncryptionWorkerExit ==
    /\ workers.encryption > 0
    /\ cn.encryption = 0
    /\ workers' = [workers EXCEPT !.encryption = @ - 1]
    /\ UNCHANGED <<poolVars, cfgVars, loadVars, state, held, th, net, staticIdentity, keyMap, peers, allowedips, cn,
                   tunClosed, limiterClosed, closed>>

\* RoutineDecryption returns when the decryption queue is closed
DecryptionWorkerExit ==
    /\ workers.decryption > 0
    /\ cn.decryption = 0
    /\ workers' = [workers EXCEPT !.decryption = @ - 1]
    /\ UNCHANGED <<poolVars, cfgVars, loadVars, state, held, th, net, staticIdentity, keyMap, peers, allowedips, cn,
                   tunClosed, limiterClosed, closed>>

(***************************************************************************)
(* Load detector: IsUnderLoad.                                             *)
(***************************************************************************)

QueueHandshakeSize == 1024

\* UnderLoadAfterTime, in ticks of the clock
UnderLoadAfterTime == 2

\* the clock stops here
MaxTime == 4

\* goroutines that may be inside IsUnderLoad at once
NumLoadCallers == 2

LoadCallers == 1 .. NumLoadCallers

\* lengths of the handshake queue: empty, just below and at the threshold, full
DepthInputs == {0, QueueHandshakeSize \div 8 - 1, QueueHandshakeSize \div 8, QueueHandshakeSize}

\* before and after: underLoadUntil right before and right after the call's
\* atomic Store or Load
IdleQuery == [pc |-> "idle", now |-> 0, depth |-> 0, result |-> FALSE,
              before |-> 0, after |-> 0]

LoadInit ==
    /\ now = 1
    /\ hsDepth = 0
    /\ underLoadUntil = 0
    /\ lq = [c \in LoadCallers |-> IdleQuery]

\* time passes
Tick ==
    /\ now < MaxTime
    /\ now' = now + 1
    /\ UNCHANGED <<poolVars, cfgVars, devVars, hsDepth, underLoadUntil, lq>>

\* receivers enqueue handshake messages, handshake workers dequeue them
HandshakeQueueChange ==
    /\ \E d \in DepthInputs \ {hsDepth} : hsDepth' = d
    /\ UNCHANGED <<poolVars, cfgVars, devVars, now, underLoadUntil, lq>>

\* IsUnderLoad line 382: the queue is at or above an eighth of its capacity
underLoadAbove(depth) == depth > QueueHandshakeSize \div 8

underLoad(depth) == depth >= QueueHandshakeSize \div 8

\* IsUnderLoad lines 381-383: now := time.Now();
\* underLoad := len(device.queue.handshake.c) >= QueueHandshakeSize/8
IsUnderLoad_read(c) ==
    /\ lq[c].pc = "idle"
    /\ lq' = [lq EXCEPT ![c] = [IdleQuery EXCEPT
                                   !.now = now, !.depth = hsDepth,
                                   !.pc = IF underLoad(hsDepth) THEN "store" ELSE "load"]]
    /\ UNCHANGED <<poolVars, cfgVars, devVars, now, hsDepth, underLoadUntil>>

\* IsUnderLoad lines 383-386: underLoadUntil.Store(now + UnderLoadAfterTime); return true
IsUnderLoad_store(c) ==
    /\ lq[c].pc = "store"
    /\ underLoadUntil' = lq[c].now + UnderLoadAfterTime
    /\ lq' = [lq EXCEPT ![c] = [@ EXCEPT !.pc = "done", !.result = TRUE,
                                         !.before = underLoadUntil,
                                         !.after = lq[c].now + UnderLoadAfterTime]]
    /\ UNCHANGED <<poolVars, cfgVars, devVars, now, hsDepth>>

\* IsUnderLoad line 388: return underLoadUntil.Load() > now
IsUnderLoad_load(c) ==
    /\ lq[c].pc = "load"
    /\ lq' = [lq EXCEPT ![c] = [@ EXCEPT !.pc = "done",
                                         !.result = (underLoadUntil > lq[c].now),
                                         !.before = underLoadUntil,
                                         !.after = underLoadUntil]]
    /\ UNCHANGED <<poolVars, cfgVars, devVars, now, hsDepth, underLoadUntil>>

\* the caller has the result
IsUnderLoad_return(c) ==
    /\ lq[c].pc = "done"
    /\ lq' = [lq EXCEPT ![c] = IdleQuery]
    /\ UNCHANGED <<poolVars, cfgVars, devVars, now, hsDepth, underLoadUntil>>

LoadNext ==
    \/ Tick
    \/ HandshakeQueueChange
    \/ \E c \in LoadCallers :
          \/ IsUnderLoad_read(c)
          \/ IsUnderLoad_store(c)
          \/ IsUnderLoad_load(c)
          \/ IsUnderLoad_return(c)

(***************************************************************************)
(* Specifications.                                                         *)
(***************************************************************************)

ThreadStep(t) ==
    \/ \E want \in {"Up", "Down"} : changeState(t, want)
    \/ BindUpdate_lock(t)
    \/ BindUpdate_open(t)
    \/ BindUpdate_peers(t)
    \/ BindUpdate_start(t)
    \/ upLocked_ipc(t)
    \/ upLocked_peers(t)
    \/ upLocked_start(t)
    \/ changeState_fallthrough(t)
    \/ BindClose_lock(t)
    \/ BindClose_wait(t)
    \/ downLocked_peers(t)
    \/ downLocked_stop(t)
    \/ Close_lock(t)
    \/ Close_ipc(t)
    \/ Close_tun(t)
    \/ RemoveAllPeers(t)
    \/ Close_done(t)
    \/ Close_wait(t)
    \/ Close_latch(t)
    \/ \E k \in PeerKeys : RemovePeer(t, k)
    \/ \E sk \in PrivKeys : SetPrivateKey_lock(t, sk)
    \/ SetPrivateKey_peers(t)
    \/ SetPrivateKey_handshakes(t)
    \/ SetPrivateKey_body(t)
    \/ \E mark \in {0, 1} : BindSetMark_lock(t, mark)
    \/ BindSetMark_peers(t)
    \/ Return(t)

WorkerStep ==
    \/ ReceiverExit
    \/ TunReaderExit
    \/ TunReadError
    \/ HandshakeWorkerExit
    \/ EncryptionWorkerExit
    \/ DecryptionWorkerExit

Next ==
    \/ \E t \in Threads : ThreadStep(t)
    \/ \E k \in PeerKeys : AddPeer(k)
    \/ WorkerStep

Init == PoolInit /\ CfgInit /\ DevInit /\ LoadInit

\* a new device, no pool test running
DeviceInit == Init /\ poolMax = 0

\* the device and its callers
Spec == DeviceInit /\ [][Next]_vars

\* the device with its goroutines scheduled fairly: a goroutine whose input is
\* closed is eventually run and returns
FairSpec ==
    /\ Spec
    /\ WF_vars(ReceiverExit)
    /\ WF_vars(TunReaderExit)
    /\ WF_vars(HandshakeWorkerExit)
    /\ WF_vars(EncryptionWorkerExit)
    /\ WF_vars(DecryptionWorkerExit)

\* the callers of the peer registry
RegistryStep(t) ==
    \/ \E k \in PeerKeys : RemovePeer_lock(t, k)
    \/ RemoveAllPeers_lock(t)
    \/ \E sk \in PrivKeys : SetPrivateKey_lock(t, sk)
    \/ SetPrivateKey_peers(t)
    \/ SetPrivateKey_handshakes(t)
    \/ SetPrivateKey_selfLoop(t)
    \/ SetPrivateKey_rest(t)
    \/ removePeerLocked_trie(t)
    \/ removePeerLocked_stop(t)
    \/ removePeerLocked_delete(t)
    \/ \E pk \in PeerKeys : LookupPeer_lock(t, pk)
    \/ LookupPeer_read(t)
    \/ Return(t)

RegistryNext ==
    \/ \E t \in Threads : RegistryStep(t)
    \/ \E k \in PeerKeys : AddPeer(k)

\* the peer registry of a new device under its removers and readers, with
\* removePeerLocked taken statement by statement
RegistrySpec == DeviceInit /\ [][RegistryNext]_vars

\* the pool under TestWaitPool
PoolSpec == Init /\ [][PoolNext]_vars

\* the pool test with its goroutines scheduled fairly: a worker holding an
\* element wakes from its sleep and puts it back, a worker in Get runs
FairPoolSpec ==
    /\ PoolSpec
    /\ \A w \in PoolWorkers : WF_vars(PoolPut(w)) /\ WF_vars(PoolGet(w))

\* the IPC layer installing obfuscation configurations
ConfigSpec == DeviceInit /\ [][HandlePostConfig]_vars

\* the load detector queried by concurrent goroutines
LoadSpec == DeviceInit /\ [][LoadNext]_vars

(***************************************************************************)
(* Properties.                                                             *)
(***************************************************************************)

\* C1: once the state word holds Closed, no step of any Up, Down or Close call
\* stores another value: every later read returns Closed.
C1_OnceClosedAlwaysClosed == [][state = "Closed" => state' = "Closed"]_vars

\* a transition request that found the device closed, after Close has finished
C1_Witness ==
    /\ state = "Closed"
    /\ closed = 1
    /\ \E t \in Threads : th[t].op = "Up" /\ th[t].pc = "ret" /\ th[t].old = "Closed"

\* C2: when Up on a Down device fails in the up-procedure, Up returns with the
\* state word Down, the bind closed, no receiver running, every registered peer
\* stopped, and the error of the up-procedure as its result.
C2_UpFailureDrivesDown ==
    \A t \in Threads :
        (th[t].pc = "ret" /\ th[t].op = "Up" /\ th[t].old = "Down" /\ th[t].upErr # "nil")
        => /\ state = "Down"
           /\ ~net.bindOpen
           /\ net.receivers = 0
           /\ \A k \in keyMap : ~peers[k].running
           /\ th[t].err = th[t].upErr

\* Up returns after bind.Open failed and the bind close of the down-procedure
\* failed too, with a peer registered
C2_Witness ==
    \E t \in Threads :
        /\ th[t].pc = "ret" /\ th[t].op = "Up" /\ th[t].old = "Down"
        /\ th[t].upErr = "ErrBindOpen" /\ th[t].errDown = "ErrBindClose"
        /\ keyMap # {}

\* C6: when SetPrivateKey(sk) returns after replacing a different key, no peer
\* whose remote static is sk's public key is registered, every other peer that
\* was registered still is, and the keypairs of every registered peer have been
\* expired under the new key.
C6_SetPrivateKeyPost ==
    \A t \in Threads :
        (th[t].pc = "ret" /\ th[t].op = "SetPrivateKey" /\ ~th[t].same)
        => /\ staticIdentity.privateKey = th[t].arg
           /\ publicKey(th[t].arg) \notin keyMap
           /\ th[t].locked \ {publicKey(th[t].arg)} \subseteq keyMap
           /\ \A k \in keyMap : peers[k].expiredFor = th[t].arg

\* SetPrivateKey returns having removed one of two registered peers
C6_Witness ==
    \E t \in Threads :
        /\ th[t].pc = "ret" /\ th[t].op = "SetPrivateKey" /\ ~th[t].same
        /\ publicKey(th[t].arg) \in th[t].locked
        /\ Cardinality(th[t].locked) = 2
        /\ Cardinality(keyMap) = 1

\* the documented lock order
Rank(l) ==
    CASE l = "state" -> 1
      [] l = "ipc" -> 2
      [] l = "net" -> 3
      [] l = "static" -> 4
      [] l = "peers" -> 5
      [] l = "handshake" -> 6
      [] l = "keypairs" -> 7

LockOrder ==
    \A t \in Threads : \A i, j \in DOMAIN held[t] :
        i < j => \/ Rank(held[t][i].l) < Rank(held[t][j].l)
                 \/ /\ held[t][i].l = "handshake" /\ held[t][j].l = "handshake"
                    /\ held[t][i].p # held[t][j].p

\* thread t waits for a lock that thread u holds in a conflicting mode
WaitsFor(t, u) ==
    \E k \in Wants(t) : IF k.m = "W" THEN Holds(u, k.l, k.p) ELSE HoldsW(u, k.l, k.p)

Deadlocked(S) == S # {} /\ \A t \in S : \E u \in S : WaitsFor(t, u)

\* C7: the locks a thread holds were taken in the order state, ipc, net,
\* static identity, peer registry, per-peer handshake, and no set of threads
\* waits in a cycle for locks held inside the set.
C7_LockDiscipline ==
    /\ LockOrder
    /\ \A S \in SUBSET Threads : ~Deadlocked(S)

\* a thread holding a lock is blocked on a lock of a thread that holds two
C7_Witness ==
    \E t, u \in Threads :
        /\ t # u
        /\ WaitsFor(t, u)
        /\ Len(held[t]) >= 1
        /\ Len(held[u]) >= 2

AllWorkersExited ==
    /\ workers.encryption = 0
    /\ workers.decryption = 0
    /\ workers.handshake = 0
    /\ ~workers.tun
    /\ net.receivers = 0

\* C8: once Close has fired the closed latch, every worker (encryption,
\* decryption, handshake, TUN reader, UDP receivers) eventually has exited.
C8_WorkersExitAfterClose == (closed > 0) ~> AllWorkersExited

\* Close has returned while pipeline workers are still running
C8_Witness ==
    /\ closed > 0
    /\ workers.handshake > 0
    /\ workers.encryption > 0
    /\ workers.decryption > 0

\* C9: until Close stores Closed, the producer count of each of the three
\* queues is positive, and it is never negative.
C9_ProducerCountsPositive ==
    /\ \A q \in DOMAIN cn : cn[q] >= 0
    /\ state # "Closed" => \A q \in DOMAIN cn : cn[q] > 0

\* before Close, one of two receivers of a closed bind has exited
C9_Witness ==
    /\ state = "Down"
    /\ ~net.bindOpen
    /\ net.receivers = 1
    /\ cn.handshake = 2
    /\ cn.decryption = 2

\* C10: Up or Down called on a Closed device returns nil at once and stores no
\* state, leaves the bind as it is and starts or stops no peer.
C10_ClosedIgnoresTransition ==
    [][\A t \in Threads :
          (th[t].pc = "idle" /\ th'[t].op \in {"Up", "Down"} /\ state = "Closed")
          => /\ th'[t].pc = "ret"
             /\ th'[t].err = "nil"
             /\ state' = state
             /\ net' = net
             /\ peers' = peers
             /\ keyMap' = keyMap]_vars

\* Down was requested on a closed device and returned nil
C10_Witness ==
    \E t \in Threads :
        /\ th[t].op = "Down" /\ th[t].pc = "ret" /\ th[t].old = "Closed"
        /\ th[t].err = "nil"
        /\ state = "Closed"

\* C3: with max > 0 the in-flight counter of the pool never exceeds max.
C3_PoolCeiling == poolMax > 0 => poolCount <= poolMax

\* the pool is full and a worker is parked in Get
C3_Witness ==
    /\ poolMax > 0
    /\ poolCount = poolMax
    /\ \E w \in PoolWorkers : wpc[w] = "wait"

\* C4: completed Get calls = completed Put calls + the in-flight counter, when
\* every element obtained is put back at most once.
C4_PoolAccounting == gets = puts + poolCount

\* elements have been put back while others are in flight
C4_Witness ==
    /\ puts > 0
    /\ poolCount > 0
    /\ \E w \in PoolWorkers : wpc[w] = "exit"

\* the four tags t resolves to
ResolvedTypes(t) ==
    {ResolveType(t.initPacketMagicHeader, 1), ResolveType(t.responsePacketMagicHeader, 2),
     ResolveType(t.underloadPacketMagicHeader, 3), ResolveType(t.transportPacketMagicHeader, 4)}

MagicCollision(t) == Cardinality(ResolvedTypes(t)) # 4

SameSizes(t) ==
    MessageInitiationSize + t.initPacketJunkSize = MessageResponseSize + t.responsePacketJunkSize

\* C5: a handlePostConfig call whose configuration has colliding magic headers
\* or equal init and response sizes returns an error and leaves the four
\* message type tags and both dispatch tables as they were.
C5_InvalidKeepsDispatch ==
    [][(installs' = installs + 1 /\ cfgIn'.isSet /\ (MagicCollision(cfgIn') \/ SameSizes(cfgIn')))
       => /\ cfgErr' # <<>>
          /\ msgType' = msgType
          /\ packetSizeToMsgType' = packetSizeToMsgType
          /\ msgTypeToJunkSize' = msgTypeToJunkSize]_vars

\* C11 as stated: no registered peer has had its Stop return, whichever
\* operation called it (the down-procedure included).
C11_StoppedPeerUnreachable ==
    \A k \in keyMap : ~peers[k].stopped /\ peers[k] # NoPeer

\* C11, amended: a peer stopped and torn down by removePeerLocked (RemovePeer,
\* RemoveAllPeers, Close, SetPrivateKey) is not in the key map once the registry
\* lock is released; a peer stopped by the down-procedure stays registered.
C11_RemovedPeerUnreachable ==
    \A k \in PeerKeys : peers[k] = NoPeer => k \notin keyMap

\* SetPrivateKey has removed the peer with its own public key while a peer
\* stopped by the down-procedure is still registered
C11_Witness ==
    \E t \in Threads :
        /\ th[t].op = "SetPrivateKey" /\ th[t].pc = "ret"
        /\ publicKey(th[t].arg) \in th[t].locked
        /\ publicKey(th[t].arg) \notin keyMap
        /\ \E k \in keyMap : peers[k].stopped

\* C12: a handlePostConfig call that returns a validation error leaves the live
\* obfuscation state as it was: the stored aSecConf, the four message type
\* tags, both tables and the isASecOn flag.
C12_InvalidConfigChangesNothing ==
    [][(installs' = installs + 1 /\ cfgErr' # <<>>)
       => /\ aSecConf' = aSecConf
          /\ msgType' = msgType
          /\ packetSizeToMsgType' = packetSizeToMsgType
          /\ msgTypeToJunkSize' = msgTypeToJunkSize
          /\ isASecOn' = isASecOn]_vars

\* the maximum junk size after rule 2 (max = min with packets requested)
AdjustedMax(t) ==
    IF t.junkPacketCount > 0 /\ t.junkPacketMaxSize = t.junkPacketMinSize
    THEN t.junkPacketMaxSize + 1 ELSE t.junkPacketMaxSize

\* the validation rules the supplied configuration t violates, each as the set
\* of errors that report it; conf is the stored configuration the call leaves,
\* whose junk sizes give the new init and response sizes of rule 8
RulesViolated(t, conf) ==
    {r \in {IF t.junkPacketCount < 0 THEN {"count"} ELSE {},
            IF AdjustedMax(t) >= MaxSegmentSize \/ AdjustedMax(t) < t.junkPacketMinSize
            THEN {"maxSegment", "maxBelowMin"} ELSE {},
            IF MessageInitiationSize + t.initPacketJunkSize >= MaxSegmentSize
            THEN {"initSize"} ELSE {},
            IF MessageResponseSize + t.responsePacketJunkSize >= MaxSegmentSize
            THEN {"responseSize"} ELSE {},
            IF MagicCollision(t) THEN {"magic"} ELSE {},
            IF MessageInitiationSize + conf.initPacketJunkSize
                 = MessageResponseSize + conf.responsePacketJunkSize
            THEN {"sameSize"} ELSE {}} : r # {}}

\* C13: handlePostConfig goes on checking after a rule has failed: the error it
\* returns is non-nil exactly when a rule was violated, and its chain wraps an
\* error for every violated rule. A call without a supplied configuration
\* returns nil.
C13_ErrorsAccumulate ==
    installs > 0 =>
        IF cfgIn.isSet
        THEN /\ (cfgErr # <<>>) <=> (RulesViolated(cfgIn, aSecConf) # {})
             /\ \A r \in RulesViolated(cfgIn, aSecConf) :
                    \E i \in DOMAIN cfgErr : cfgErr[i] \in r
        ELSE cfgErr = <<>>

\* a call that violated four rules returned a chain of four errors
C13_Witness ==
    /\ installs > 0
    /\ Cardinality(RulesViolated(cfgIn, aSecConf)) >= 4
    /\ Len(cfgErr) >= 4

\* a field of the configuration in effect is not the default: the stored junk
\* settings or one of the four active message type tags
InstalledNonDefault ==
    \/ aSecConf.junkPacketCount # 0
    \/ aSecConf.junkPacketMinSize # 0
    \/ aSecConf.junkPacketMaxSize # 0
    \/ aSecConf.initPacketJunkSize # 0
    \/ aSecConf.responsePacketJunkSize # 0
    \/ msgType # DefaultMsgType

\* C16: after handlePostConfig has installed a supplied configuration without
\* error, isASecOn is true exactly when a field of the installed configuration
\* is non-default; an all-default configuration clears the flag.
C16_FlagIffNonDefault ==
    (installs > 0 /\ cfgIn.isSet /\ cfgErr = <<>>) => (isASecOn <=> InstalledNonDefault)

\* a supplied all-default configuration was installed without error over one
\* that had set a magic header, and cleared the flag
C16_Witness ==
    /\ installs > 1
    /\ cfgIn.isSet
    /\ cfgErr = <<>>
    /\ ~isASecOn
    /\ aSecConf.initPacketMagicHeader > 4

\* the errors a returned error value carries: the bind's errors wrap nothing
ErrorCauses(e) == {e} \ {"nil"}

\* C14: when the up-procedure fails and the down-procedure that follows fails
\* too, the error Up returns carries both, the Down error joined to the Up error.
C14_UpJoinsDownError ==
    \A t \in Threads :
        (/\ th[t].pc = "ret" /\ th[t].op = "Up"
         /\ th[t].upErr # "nil" /\ th[t].errDown # "nil")
        => {th[t].upErr, th[t].errDown} \subseteq ErrorCauses(th[t].err)

C17_BlockedGetAdmitted ==
    \A w \in PoolWorkers : (wpc[w] = "wait") ~> (wpc[w] = "hold")

\* two workers are parked in Get while the pool is full
C17_Witness ==
    /\ poolMax > 0
    /\ poolCount = poolMax
    /\ Cardinality({w \in PoolWorkers : wpc[w] = "wait"}) >= 2

C19_SameKeyNoOp ==
    [][\A t \in Threads :
          /\ (/\ th[t].pc = "idle" /\ th'[t].op = "SetPrivateKey"
               /\ th'[t].arg = staticIdentity.privateKey)
             => /\ th'[t].pc = "ret"
                /\ th'[t].err = "nil"
                /\ held'[t] = <<StaticLock>>
                /\ keyMap' = keyMap
                /\ peers' = peers
                /\ allowedips' = allowedips
                /\ staticIdentity' = staticIdentity
          /\ (/\ th[t].op = "SetPrivateKey" /\ th[t].same /\ th'[t] # th[t])
             => /\ held[t] = <<StaticLock>>
                /\ th'[t].pc = "idle"
                /\ keyMap' = keyMap
                /\ peers' = peers
                /\ allowedips' = allowedips
                /\ staticIdentity' = staticIdentity]_vars

\* SetPrivateKey was called with the current, non-zero key while a peer is
\* registered whose keypairs were not expired under it
C19_Witness ==
    \E t \in Threads :
        /\ th[t].op = "SetPrivateKey" /\ th[t].pc = "ret" /\ th[t].same
        /\ th[t].arg # 0
        /\ \E k \in keyMap : peers[k].expiredFor # th[t].arg

\* the permanent producer reference of queue q has been released
RefReleased(q) ==
    IF q = "encryption"
    THEN cn[q] = workers.handshake + (IF workers.tun THEN 1 ELSE 0)
    ELSE cn[q] = net.receivers

\* thread t is inside a Close that found the device open, at one of the positions pcs
Closing(t, pcs) == th[t].op = "Close" /\ th[t].old # "Closed" /\ th[t].pc \in pcs

\* C20: Close tears down in the order: store Closed, close the TUN, the
\* down-procedure, remove all peers, release the permanent producer references,
\* wait for the workers, close the rate limiter, fire the closed latch. No
\* reference is released before every peer is stopped and out of the registry.
C20_CloseOrder ==
    /\ closed > 0 => limiterClosed
    /\ limiterClosed => ~workers.tun /\ \A q \in DOMAIN cn : RefReleased(q)
    /\ (\E q \in DOMAIN cn : RefReleased(q))
          => /\ keyMap = {}
             /\ allowedips = {}
             /\ \A k \in PeerKeys : ~peers[k].running
             /\ ~net.bindOpen
             /\ tunClosed
    /\ tunClosed => state = "Closed"
    /\ \A t \in Threads :
          /\ Closing(t, {"cl_tun"}) => state = "Closed" /\ ~tunClosed
          /\ Closing(t, {"BindClose", "bc_wait", "down_peers", "down_stop"})
                => tunClosed /\ \A q \in DOMAIN cn : ~RefReleased(q)
          /\ Closing(t, {"RemoveAllPeers", "cl_done"})
                => /\ ~net.bindOpen /\ net.receivers = 0
                   /\ \A k \in PeerKeys : ~peers[k].running
                   /\ \A q \in DOMAIN cn : ~RefReleased(q)
          /\ Closing(t, {"cl_wait"}) => ~limiterClosed /\ \A q \in DOMAIN cn : RefReleased(q)
          /\ Closing(t, {"cl_latch"}) => limiterClosed /\ closed = 0
          /\ Closing(t, {"ret"}) => closed = 1

\* Close of an Up device has closed the rate limiter and not yet fired the
\* latch, while handshake workers are still running
C20_Witness ==
    \E t \in Threads :
        /\ Closing(t, {"cl_latch"})
        /\ th[t].old = "Up"
        /\ workers.handshake > 0

\* C21: the closed latch is fired at most once and only when the teardown of
\* the first Close is complete; the permanent producer references are released
\* at most once; a Close call that finds the device closed returns without
\* changing anything.
C21_LatchFiredOnce ==
    /\ [](/\ closed <= 1
          /\ cn.encryption >= workers.handshake + (IF workers.tun THEN 1 ELSE 0)
          /\ cn.decryption >= net.receivers
          /\ cn.handshake >= net.receivers
          /\ closed = 1 => /\ state = "Closed"
                           /\ tunClosed
                           /\ limiterClosed
                           /\ keyMap = {}
                           /\ \A q \in DOMAIN cn : RefReleased(q))
    /\ [][\A t \in Threads :
             (th[t].op = "Close" /\ th[t].pc = "cl_ipc" /\ state = "Closed" /\ th'[t] # th[t])
             => /\ th'[t].pc = "ret"
                /\ UNCHANGED <<state, net, staticIdentity, keyMap, peers, allowedips, cn,
                               workers, tunClosed, limiterClosed, closed>>]_vars

\* a second Close call has returned after the first fired the latch
C21_Witness ==
    \E t \in Threads :
        /\ th[t].op = "Close" /\ th[t].pc = "ret" /\ th[t].old = "Closed"
        /\ closed = 1

\* C22: after a handlePostConfig call with a set configuration each of the four
\* tags is the supplied magic header when that is above 4 and its canonical
\* constant 1, 2, 3, 4 otherwise, and the call reports the magic-header error
\* exactly when two of the resolved tags are equal.
C22_TagsResolved ==
    (installs > 0 /\ cfgIn.isSet)
    => /\ msgType.init =
             (IF cfgIn.initPacketMagicHeader > 4 THEN cfgIn.initPacketMagicHeader ELSE 1)
       /\ msgType.resp =
             (IF cfgIn.responsePacketMagicHeader > 4 THEN cfgIn.responsePacketMagicHeader ELSE 2)
       /\ msgType.cookie =
             (IF cfgIn.underloadPacketMagicHeader > 4 THEN cfgIn.underloadPacketMagicHeader ELSE 3)
       /\ msgType.transport =
             (IF cfgIn.transportPacketMagicHeader > 4 THEN cfgIn.transportPacketMagicHeader ELSE 4)
       /\ (\E i \in DOMAIN cfgErr : cfgErr[i] = "magic")
          <=> (\/ msgType.init = msgType.resp
               \/ msgType.init = msgType.cookie
               \/ msgType.init = msgType.transport
               \/ msgType.resp = msgType.cookie
               \/ msgType.resp = msgType.transport
               \/ msgType.cookie = msgType.transport)

\* a call that mixed supplied and canonical tags and another that collided
C22_Witness ==
    /\ installs > 0 /\ cfgIn.isSet
    /\ cfgIn.initPacketMagicHeader = 5 /\ cfgIn.transportPacketMagicHeader = 5
    /\ msgType = [init |-> 5, resp |-> 6, cookie |-> 7, transport |-> 5]
    /\ \E i \in DOMAIN cfgErr : cfgErr[i] = "magic"

\* C23: when the maximum junk size, after the max+1 adjustment, is at least
\* MaxSegmentSize or below the supplied minimum, the call returns an error and
\* the stored minimum and maximum are restored to 0 and 1; otherwise the
\* supplied minimum and the adjusted maximum are stored.
C23_BadRangeRestored ==
    (installs > 0 /\ cfgIn.isSet)
    => IF AdjustedMax(cfgIn) >= MaxSegmentSize \/ AdjustedMax(cfgIn) < cfgIn.junkPacketMinSize
       THEN /\ cfgErr # <<>>
            /\ aSecConf.junkPacketMinSize = 0
            /\ aSecConf.junkPacketMaxSize = 1
       ELSE /\ aSecConf.junkPacketMinSize = cfgIn.junkPacketMinSize
            /\ aSecConf.junkPacketMaxSize = AdjustedMax(cfgIn)

\* C24: an Up call that succeeds on a Down device leaves the state Up and has
\* started one receiver per receive function of the opened bind, adding that
\* number to the receiver wait-group and to the decryption and handshake
\* producer counts; a bind update that finds the device not Up has closed the
\* old bind and starts no receiver.
C24_UpStartsReceivers ==
    /\ [](\A t \in Threads :
            (th[t].op = "Up" /\ th[t].pc = "ret" /\ th[t].old = "Down" /\ th[t].err = "nil")
            => state = "Up" /\ th[t].n \in 1 .. MaxRecvFns)
    /\ [][\A t \in Threads :
             /\ (th[t].pc = "bu_start" /\ th'[t].pc # "bu_start")
                => /\ net.bindOpen /\ net.receivers = 0
                   /\ net'.receivers = th[t].n
                   /\ cn'.decryption = cn.decryption + th[t].n
                   /\ cn'.handshake = cn.handshake + th[t].n
                   /\ cn'.encryption = cn.encryption
             /\ (th[t].pc = "bu_wait" /\ state # "Up" /\ th'[t].pc # "bu_wait")
                => /\ th'[t].pc = "ret"
                   /\ ~net'.bindOpen /\ net'.receivers = 0
                   /\ cn' = cn]_vars

\* Up has returned nil on a device that was Down, with both receivers of the
\* bind running and counted as producers next to the permanent references
C24_Witness ==
    \E t \in Threads :
        /\ th[t].op = "Up" /\ th[t].pc = "ret" /\ th[t].old = "Down" /\ th[t].err = "nil"
        /\ th[t].n = 2 /\ net.receivers = 2 /\ net.bindOpen
        /\ cn.decryption = 3 /\ cn.handshake = 3

\* C25: Down on an Up device stores Down first, then closes the bind and waits
\* for every receiver of it, and only then stops the registered peers; when it
\* returns no receiver runs and no registered peer runs, whether or not closing
\* the bind returned an error.
C25_DownOrder ==
    /\ [](\A t \in Threads :
            (th[t].op = "Down" /\ th[t].old = "Up")
            => /\ th[t].pc \in {"BindClose", "bc_wait", "down_peers", "down_stop", "ret"}
               /\ state = "Down"
               /\ th[t].pc \in {"BindClose", "bc_wait", "down_peers", "down_stop"}
                  => \A k \in keyMap : ~peers[k].stopped
               /\ th[t].pc \in {"down_peers", "down_stop", "ret"}
                  => ~net.bindOpen /\ net.receivers = 0
               /\ th[t].pc = "ret"
                  => /\ \A k \in keyMap : ~peers[k].running
                     /\ th[t].err = th[t].errDown)
    /\ [][\A t \in Threads :
             (th[t].op = "Down" /\ th[t].pc = "down_stop" /\ th'[t].pc # "down_stop")
             => /\ th'[t].pc = "ret"
                /\ \A k \in keyMap : peers'[k].stopped /\ ~peers'[k].running]_vars

\* Down has returned the bind's close error on a device that was Up, with
\* every registered peer stopped
C25_Witness ==
    \E t \in Threads :
        /\ th[t].op = "Down" /\ th[t].pc = "ret" /\ th[t].old = "Up"
        /\ th[t].err = "ErrBindClose"
        /\ keyMap = PeerKeys
        /\ \A k \in keyMap : peers[k].stopped

\* C26: every removal, by RemovePeer, RemoveAllPeers or the self-loop branch
\* of SetPrivateKey, takes the peer's prefixes out of the trie, then stops the
\* peer, then deletes its key, all under the registry write lock, so a
\* LookupPeer under the read lock returns no peer that is being or has been
\* torn down.
C26_RemovalOrder ==
    /\ [](/\ \A k \in PeerKeys :
                /\ peers[k].stopped => k \notin allowedips
                /\ k \notin keyMap => peers[k] = NoPeer /\ k \notin allowedips
                /\ (k \in keyMap /\ (k \notin allowedips \/ peers[k].stopped))
                   => \E t \in Threads :
                         /\ th[t].op \in {"RemovePeer", "RemoveAllPeers", "SetPrivateKey"}
                         /\ th[t].pc \in {"rm_stop", "rm_delete"}
                         /\ th[t].cur = k
          /\ \A t \in Threads :
                /\ th[t].pc \in {"rm_trie", "rm_stop", "rm_delete"} => HoldsW(t, "peers", 0)
                /\ (th[t].op = "LookupPeer" /\ th[t].pc = "ret")
                   => IF th[t].found = 0 THEN th[t].arg \notin keyMap
                      ELSE /\ th[t].found = th[t].arg
                           /\ th[t].found \in keyMap \cap allowedips
                           /\ ~peers[th[t].found].stopped)
    /\ [][\A t \in Threads :
             /\ (th[t].pc = "rm_stop" /\ th'[t].pc # "rm_stop")
                => th[t].cur \in keyMap \ allowedips /\ ~peers[th[t].cur].stopped
             /\ (th[t].pc = "rm_delete" /\ th'[t].pc # "rm_delete")
                => th[t].cur \in keyMap \ allowedips /\ peers[th[t].cur].stopped]_vars

\* the self-loop removal of SetPrivateKey has stopped a peer whose prefixes are
\* gone and whose key is still in the map, the other peer still registered
\* and the other caller kept out by the write lock
C26_Witness ==
    \E t, u \in Threads :
        /\ th[t].op = "SetPrivateKey" /\ th[t].pc = "rm_delete"
        /\ th[t].cur \in keyMap \ allowedips
        /\ peers[th[t].cur].stopped
        /\ th[u].op = "none"
        /\ keyMap = PeerKeys

\* MessageInitiationType, MessageResponseType, MessageCookieReplyType and
\* MessageTransportType as they stand
ActiveTags == {msgType.init, msgType.resp, msgType.cookie, msgType.transport}

\* C27: after any sequence of handlePostConfig calls, successful or failing,
\* the values of packetSizeToMsgType and the keys of msgTypeToJunkSize are both
\* exactly the four current message type tags.
C27_TablesAgreeWithTags ==
    /\ {packetSizeToMsgType[z] : z \in DOMAIN packetSizeToMsgType} = ActiveTags
    /\ DOMAIN msgTypeToJunkSize = ActiveTags

====
